---------------------------- MODULE Spec2Model ----------------------------
(***************************************************************************)
(* A model of the go-rst lexer (src/parse/lex.go) and of the tree-building *)
(* parser (src/unnamed/part_000).  The lexer goroutine and the parser      *)
(* goroutine are two processes joined by the unbuffered channel l.items.   *)
(*                                                                         *)
(* Text is a sequence of one-rune strings; a Go byte offset p is the       *)
(* element p+1 of the sequence (the modelled inputs are ASCII, so a rune   *)
(* is one byte wide and NFC normalisation in Parse leaves them unchanged). *)
(***************************************************************************)
EXTENDS Integers, Sequences, FiniteSets, TLC

VARIABLES
    input,      \* lexer.input / Tree.text: the text being parsed
    lx,         \* the lexer struct and the position of its goroutine
    emitted,    \* history: the items sent on l.items so far, in order
    tr,         \* the Tree struct (token window, lists, registry, errors)
    nodes,      \* the heap of nodes built so far, in construction order
    made,       \* history: the token the loop of Tree.parse handled last
                \* and the node n it made of it (a heap index, 0 for none)
    ppc         \* the position of the parser goroutine in Tree.parse

vars == <<input, lx, emitted, tr, nodes, made, ppc>>

-----------------------------------------------------------------------------
(* Bounds of the explored inputs *)

\* every text over Alphabet of at most MaxLen runes is explored
MaxLen == 4

\* every text made of at most MaxLines lines of LineVocabulary is explored
MaxLines == 3

-----------------------------------------------------------------------------
(* Runes and rune classes: lex.go *)

\* const eof rune = -1
eof == "eof"

\* utf8.RuneError, what DecodeRuneInString returns for the empty string
RuneError == "RuneError"

\* the zero value of a rune variable
NoRune == "NUL"

NL == "\n"

\* the rune 0x60, which a TLA+ string cannot hold literally
Backtick == "BACKTICK"

sectionAdornments ==
    {"!", "\"", "#", "$", "'", "%", "&", "(", ")", "*", "+", ",", "-", ".",
     "/", ":", ";", "<", "=", ">", "?", "@", "[", "\\", "]", "^", "_", Backtick,
     "{", "|", "}", "~"}

\* the letters and digits among the printable ASCII runes
AsciiAlnum ==
    {"0", "1", "2", "3", "4", "5", "6", "7", "8", "9",
     "A", "B", "C", "D", "E", "F", "G", "H", "I", "J", "K", "L", "M",
     "N", "O", "P", "Q", "R", "S", "T", "U", "V", "W", "X", "Y", "Z",
     "a", "b", "c", "d", "e", "f", "g", "h", "i", "j", "k", "l", "m",
     "n", "o", "p", "q", "r", "s", "t", "u", "v", "w", "x", "y", "z"}

\* r <= unicode.MaxASCII && unicode.IsPrint(r): the runes 0x20 .. 0x7E
IsPrintASCII(r) == r \in AsciiAlnum \cup sectionAdornments \cup {" "}

isSpace(r) == r = " " \/ r = "\t" \/ r = NL \/ r = "\r"

isEndOfLine(r) == r = "\r" \/ r = NL

isSectionAdornment(r) == r \in sectionAdornments

-----------------------------------------------------------------------------
(* Items: the tokens the lexer emits *)

itemEOF == "itemEOF"
itemError == "itemError"
itemTitle == "itemTitle"
itemSectionAdornment == "itemSectionAdornment"
itemParagraph == "itemParagraph"
itemBlockquote == "itemBlockquote"
itemLiteralBlock == "itemLiteralBlock"
itemSystemMessage == "itemSystemMessage"
itemSpace == "itemSpace"
itemBlankLine == "itemBlankLine"

\* a nil *item
NilItem == [Type |-> "nil", Position |-> 0, Line |-> 0, Length |-> 0, Text |-> <<>>]


\* the items sent so far are kept as a sequence of items
Item(t, position, line, text) ==
    [Type |-> t, Position |-> position, Line |-> line, Length |-> Len(text),
     Text |-> text]

-----------------------------------------------------------------------------
(* The lexer's cursor primitives: lex.go *)

\* l.input[a:b]; Go panics unless 0 <= a <= b <= len(l.input)
SliceOK(a, b) == 0 <= a /\ a <= b /\ b <= Len(input)

Slice(a, b) == SubSeq(input, a + 1, b)

\* strings.Count(s, "\n")
strings_Count(s, c) == Cardinality({i \in 1..Len(s) : s[i] = c})

\* lexer.lineNumber for a cursor at pos (defined when SliceOK(0, pos - 1))
lexer_lineNumber(pos) == 1 + strings_Count(Slice(0, pos - 1), NL)

\* an assignment to l.pos.  l.writes lists the values l.pos is given within
\* the step of the goroutine that is being computed, in order: what a read
\* of l.pos from another goroutine during the step can see
lexer_setPos(l, p) == [l EXCEPT !.pos = p, !.writes = Append(@, p)]

\* the rune lexer.next returns
lexer_nextRune(l) == IF l.pos >= Len(input) THEN eof ELSE input[l.pos + 1]

\* the lexer after lexer.next
lexer_next(l) ==
    IF l.pos >= Len(input)
    THEN [l EXCEPT !.width = 0]
    ELSE lexer_setPos([l EXCEPT !.width = 1], l.pos + 1)

\* the lexer after lexer.backup
lexer_backup(l) == lexer_setPos(l, l.pos - l.width)

\* lexer.current: DecodeRuneInString(l.input[l.pos:]), RuneError at the end
lexer_current(l) == IF l.pos < Len(input) THEN input[l.pos + 1] ELSE RuneError

\* the rune lexer.peek returns, and the lexer after it
lexer_peekRune(l) == lexer_nextRune(l)

lexer_peek(l) == lexer_backup(lexer_next(l))

\* lexer.advance(to)
RECURSIVE lexer_advance(_, _)
lexer_advance(l, to) ==
    LET r == lexer_nextRune(l)
        l1 == lexer_next(l)
    IN  IF r = eof \/ to = lexer_current(l1) THEN l1 ELSE lexer_advance(l1, to)

\* lexer.emit up to the send on l.items: the goroutine then waits at "send"
\* with the item in out, and goes on at cont once the parser has taken it
lexer_emit_send(l, t, cont) ==
    IF ~SliceOK(l.start, l.pos) \/ ~SliceOK(0, l.pos - 1)
    THEN [l EXCEPT !.pc = "panic"]
    ELSE [l EXCEPT !.pc = "send", !.cont = cont,
                   !.out = Item(t, l.start + 1, lexer_lineNumber(l.pos),
                                Slice(l.start, l.pos))]

lexer_emit(l, t, cont) ==
    IF l.start = l.pos /\ l.pos < Len(input)
    THEN lexer_emit_send(lexer_setPos(l, l.pos + 1), t, cont)
    ELSE lexer_emit_send(l, t, cont)

\* lexer.emit behind the send: lines 129-130
lexer_emit_tail(l) ==
    [l EXCEPT !.lastItem = l.out, !.start = l.pos, !.cont = "",
              !.out = NilItem]

-----------------------------------------------------------------------------
(* isSection: the section lookahead *)

lookPositions == 2

\* a slip that returns without restoring the cursor
isSection_exit_unrestored(s, cPos, value) == [value |-> value, l |-> s.l]

\* exit(value): restores the cursor
isSection_exit(s, cPos, value) ==
    [value |-> value, l |-> lexer_setPos(s.l, cPos)]

\* the inner loop over white space; tooMany is the "Too many newlines" exit
RECURSIVE isSection_skip(_)
isSection_skip(s) ==
    LET c == lexer_current(s.l)
    IN  IF ~isSpace(c) THEN s
        ELSE IF isEndOfLine(c) /\ s.newLineNum = 1
             THEN [s EXCEPT !.tooMany = TRUE]
        ELSE isSection_skip(
                [s EXCEPT !.newLineNum = IF isEndOfLine(c) THEN @ + 1 ELSE @,
                          !.l = lexer_next(s.l)])

\* the loop over the look positions, from position s.j on; w is the state
\* the inner loop leaves and c the rune under the cursor then
RECURSIVE isSection_look(_, _)
RECURSIVE isSection_position(_, _, _)
isSection_position(w, c, cPos) ==
    IF w.tooMany THEN isSection_exit(w, cPos, FALSE)
    ELSE IF isSectionAdornment(c)
    THEN IF w.lastAdornment # NoRune /\ c # w.lastAdornment
         THEN isSection_exit(w, cPos, FALSE)
         ELSE isSection_look(
                [w EXCEPT !.runePositions = Append(@, c),
                          !.lastAdornment = c,
                          !.matchCount = @ + 1,
                          !.l = lexer_next(w.l),
                          !.j = @ + 1], cPos)
    ELSE isSection_look([w EXCEPT !.l = lexer_next(w.l), !.j = @ + 1], cPos)

isSection_look(s, cPos) ==
    IF s.j >= lookPositions
    THEN isSection_exit(s, cPos,
            ~(Len(s.runePositions) = 0 \/ s.matchCount # lookPositions))
    ELSE isSection_position(isSection_skip(s),
                            lexer_current(isSection_skip(s).l), cPos)

\* isSection(l): the value returned and the lexer it leaves
\* lines 226-264, la being the lexer advance('\n') leaves
isSection_lines(la, cPos) ==
    IF lexer_current(la) = eof
    THEN [value |-> FALSE, l |-> la]
    ELSE isSection_look(
            [l |-> la, j |-> 0, lastAdornment |-> NoRune, newLineNum |-> 0,
             matchCount |-> 0, runePositions |-> <<>>, tooMany |-> FALSE],
            cPos)

\* lines 221-222: the second conjunct calls peek only when the first one
\* holds, and the third calls it again only when the second one holds
isSection(l) ==
    IF isSectionAdornment(lexer_current(l))
    THEN IF isSectionAdornment(lexer_peekRune(l))
         THEN IF lexer_current(l) = lexer_peekRune(l)
              THEN [value |-> TRUE, l |-> lexer_peek(lexer_peek(l))]
              ELSE isSection_lines(
                      lexer_advance(lexer_peek(lexer_peek(l)), NL), l.pos)
         ELSE isSection_lines(lexer_advance(lexer_peek(l), NL), l.pos)
    ELSE isSection_lines(lexer_advance(l, NL), l.pos)

-----------------------------------------------------------------------------
(* The state functions of the lexer.  A step of the lexer goroutine runs  *)
(* from one control point to the next: the head of a state function's     *)
(* loop, or the send of an item.  pc names the control point; "send" is   *)
(* the goroutine blocked in l.items <- nItem; "halted" is run() returned; *)
(* "panic" is a run-time panic (it ends the whole program); "spin" is a   *)
(* loop whose body no longer changes the lexer, so that it never ends.    *)

\* lexStart, lines 303-313: the loop's l.next(), then the flush at eof
\* a slip that comes back to line 313 behind the EOF item and sends it again
lexStart_flush_again(l) ==
    IF l.pos > l.start
    THEN lexer_emit(l, itemParagraph, "lexStart_313")
    ELSE lexer_emit(l, itemEOF, "lexStart_313")

lexStart_flush(l) ==
    IF l.pos > l.start
    THEN lexer_emit(l, itemParagraph, "lexStart_313")
    ELSE lexer_emit(l, itemEOF, "lexStart_315")

lexStart_tail(l) ==
    IF lexer_nextRune(l) = eof
    THEN lexStart_flush(lexer_next(l))
    ELSE [lexer_next(l) EXCEPT !.pc = "lexStart"]

\* lexStart, lines 290-292, s being what isSection(l) gave
lexStart_isSection(s) ==
    IF s.value THEN [s.l EXCEPT !.pc = "lexSection"] ELSE lexStart_tail(s.l)

\* lexStart, one iteration of its loop
lexStart(l) ==
    LET tokenLength == l.pos - l.start
        r == lexer_current(l)
    IN  IF tokenLength = 1
        THEN IF isEndOfLine(r)
             THEN lexer_emit(l, itemBlankLine, "lexStart_287")
             ELSE IF isSpace(r)
             THEN [l EXCEPT !.pc = "lexSpace"]
             ELSE lexStart_isSection(isSection(l))
        ELSE IF isEndOfLine(r)
        THEN IF l.pos > l.start
             THEN lexer_emit(l, itemParagraph, "lexStart_297")
             ELSE IF l.start = l.pos
             THEN lexer_emit(l, itemBlankLine, "lexStart_303")
             ELSE lexStart_tail(l)
        ELSE lexStart_tail(l)

\* lexSpace, line 321: for isSpace(l.current()) { l.next() }
RECURSIVE lexSpace_skip(_)
lexSpace_skip(l) ==
    IF isSpace(lexer_current(l)) THEN lexSpace_skip(lexer_next(l)) ELSE l

\* lexSpace up to its emit
lexSpace(l) ==
    LET l1 == lexSpace_skip(l)
    IN  IF l1.start < l1.pos
        THEN lexer_emit(l1, itemSpace, "lexSpace_326")
        ELSE [l1 EXCEPT !.pc = "lexStart"]

\* lexSection; line 342 calls lexSectionAdornment and then returns lexStart
lexSection(l) ==
    LET r == lexer_nextRune(l)
        l1 == lexer_next(l)
    IN  IF isSectionAdornment(r)
        THEN IF l1.lastItem = NilItem
             THEN [l1 EXCEPT !.pc = "panic"]
             ELSE IF l1.lastItem.Type # itemTitle
             THEN [l1 EXCEPT !.pc = "lexSectionAdornment"]
             ELSE [l1 EXCEPT !.pc = "lexSectionAdornment_called"]
        ELSE IF isSpace(r)
        THEN [l1 EXCEPT !.pc = "lexSpace"]
        ELSE IF IsPrintASCII(r)
        THEN [l1 EXCEPT !.pc = "lexTitle"]
        ELSE IF isEndOfLine(r)
        THEN [l1 EXCEPT !.start = @ + 1, !.pc = "lexStart"]
        ELSE [l1 EXCEPT !.pc = "lexStart"]

\* one iteration of the loop of lexTitle / lexSectionAdornment: at the end
\* of the input next() returns eof and peek() is never '\n' again
lexLine(l, t, cont) ==
    LET r == lexer_nextRune(l)
        l1 == lexer_next(l)
    IN  IF lexer_peekRune(l1) = NL
        THEN lexer_emit(lexer_peek(l1), t, cont)
        ELSE IF r = eof
        THEN [lexer_peek(l1) EXCEPT !.pc = "spin"]
        ELSE lexer_peek(l1)

lexTitle(l) == lexLine(l, itemTitle, "lexTitle_362")

lexSectionAdornment(l) ==
    lexLine(l, itemSectionAdornment,
            IF l.pc = "lexSectionAdornment_called"
            THEN "lexSectionAdornment_called_380"
            ELSE "lexSectionAdornment_380")

\* the statements behind each call of emit
lexer_continue(l, at) ==
    CASE at = "lexStart_287" -> lexStart_tail([l EXCEPT !.start = @ + 1])
      [] at = "lexStart_297" -> lexStart_tail([l EXCEPT !.start = @ + 1])
      [] at = "lexStart_303" -> lexStart_tail(l)
      [] at = "lexStart_313" -> lexer_emit(l, itemEOF, "lexStart_315")
      [] at = "lexStart_315" -> [l EXCEPT !.pc = "halted"]
      [] at = "lexSpace_326" -> [lexer_next(l) EXCEPT !.pc = "lexStart"]
      [] at = "lexTitle_362" ->
            [lexer_setPos([l EXCEPT !.start = @ + 1], l.pos + 1)
                EXCEPT !.pc = "lexSection"]
      [] at = "lexSectionAdornment_380" ->
            [lexer_setPos([l EXCEPT !.start = @ + 1], l.pos + 1)
                EXCEPT !.pc = "lexSection"]
      [] at = "lexSectionAdornment_called_380" ->
            [lexer_setPos([l EXCEPT !.start = @ + 1], l.pos + 1)
                EXCEPT !.pc = "lexStart"]

\* what follows a send, once the item has been taken: the end of emit and
\* the statements behind the call
lexer_resume(l) == lexer_continue(lexer_emit_tail(l), l.pc)

\* lexer.run: one step of the goroutine, from one control point to the next
lexer_step(l) ==
    CASE l.pc = "lexStart" -> lexStart(l)
      [] l.pc = "lexSpace" -> lexSpace(l)
      [] l.pc = "lexSection" -> lexSection(l)
      [] l.pc = "lexTitle" -> lexTitle(l)
      [] l.pc \in {"lexSectionAdornment", "lexSectionAdornment_called"} ->
            lexSectionAdornment(l)
      [] OTHER -> lexer_resume(l)

\* the lexer a step of the goroutine leaves
lexer_run(l) == [lexer_step(l) EXCEPT !.writes = <<>>]

LexerBlocked == {"send", "halted", "panic", "spin"}

\* the values l.pos has and is given from l on until the goroutine waits at
\* a send or ends, in order
RECURSIVE lexer_posFrom(_)
lexer_posFrom(l) ==
    IF l.pc \in LexerBlocked \cup {"notStarted"} THEN <<>>
    ELSE lexer_step(l).writes \o lexer_posFrom(lexer_run(l))

lexer_positions(l) == <<l.pos>> \o lexer_posFrom(l)

\* lex(name, input): the lexer before run() starts
lex == [pos |-> 0, start |-> 0, width |-> 0, writes |-> <<>>,
        lastItem |-> NilItem,
        lastPos |-> 0, pc |-> "lexStart", cont |-> "", out |-> NilItem]

-----------------------------------------------------------------------------
(* Parser messages and levels: part_000 lines 17-77 *)

levelInfo == "INFO"
levelWarning == "WARNING"
levelError == "ERROR"
levelSevere == "SEVERE"

warningShortUnderline == "warningShortUnderline"
errorUnexpectedSectionTitle == "errorUnexpectedSectionTitle"
errorUnexpectedSectionTitleOrTransition == "errorUnexpectedSectionTitleOrTransition"

Msg_warningShortUnderline ==
    <<"T", "i", "t", "l", "e", " ", "u", "n", "d", "e", "r", "l", "i", "n",
    "e", " ", "t", "o", "o", " ", "s", "h", "o", "r", "t", ".">>

Msg_errorUnexpectedSectionTitle ==
    <<"U", "n", "e", "x", "p", "e", "c", "t", "e", "d", " ", "s", "e", "c",
    "t", "i", "o", "n", " ", "t", "i", "t", "l", "e", ".">>

Msg_errorUnexpectedSectionTitleOrTransition ==
    <<"U", "n", "e", "x", "p", "e", "c", "t", "e", "d", " ", "s", "e", "c",
    "t", "i", "o", "n", " ", "t", "i", "t", "l", "e", " ", "o", "r", " ",
    "t", "r", "a", "n", "s", "i", "t", "i", "o", "n", ".">>

parserMessage_Message(p) ==
    CASE p = warningShortUnderline -> Msg_warningShortUnderline
      [] p = errorUnexpectedSectionTitle -> Msg_errorUnexpectedSectionTitle
      [] p = errorUnexpectedSectionTitleOrTransition ->
            Msg_errorUnexpectedSectionTitleOrTransition
      [] OTHER -> <<>>

parserMessage_Level(p) ==
    CASE p = warningShortUnderline -> levelWarning
      [] p = errorUnexpectedSectionTitle -> levelSevere
      [] p = errorUnexpectedSectionTitleOrTransition -> levelSevere
      [] OTHER -> levelInfo

-----------------------------------------------------------------------------
(* Nodes.  The heap `nodes` holds every node in construction order; a node *)
(* list is a sequence of heap indices, and a reference to a node list is 0 *)
(* for the root list Tree.Nodes or k > 0 for the NodeList of nodes[k].     *)

NodeSection == "NodeSection"
NodeParagraph == "NodeParagraph"
NodeBlankLine == "NodeBlankLine"
NodeAdornment == "NodeAdornment"
NodeBlockQuote == "NodeBlockQuote"
NodeSystemMessage == "NodeSystemMessage"
NodeLiteralBlock == "NodeLiteralBlock"

\* a nil *AdornmentNode
NilAdornment == [Rune |-> NoRune, Length |-> 0, Line |-> 0]

\* the fields every node record of the heap has
Node(type, id) ==
    [Type |-> type, Id |-> id, Text |-> <<>>, Length |-> 0, Level |-> 0,
     Line |-> 0, OverLine |-> NilAdornment, UnderLine |-> NilAdornment,
     Severity |-> "", NodeList |-> <<>>]

\* the AdornmentNode newSection builds from an adornment item
newAdornment(adorn) ==
    [Rune |-> adorn.Text[1], Length |-> adorn.Length, Line |-> adorn.Line]

\* newSection(title, overAdorn, underAdorn, &t.id); the level is left zero
\* and no Line is assigned
newSection(title, overAdorn, underAdorn, id) ==
    [Node(NodeSection, id) EXCEPT
        !.Text = title.Text,
        !.Length = title.Length,
        !.OverLine = IF overAdorn = NilItem THEN NilAdornment
                     ELSE newAdornment(overAdorn),
        !.UnderLine = newAdornment(underAdorn)]

\* newParagraph(i, &t.id)
newParagraph(i, id) ==
    [Node(NodeParagraph, id) EXCEPT
        !.Text = i.Text, !.Length = i.Length, !.Line = i.Line]

\* newSystemMessage(i, level, &t.id)
newSystemMessage(i, level, id) ==
    [Node(NodeSystemMessage, id) EXCEPT !.Line = i.Line, !.Severity = level]

\* newLiteralBlock(i, &t.id)
newLiteralBlock(i, id) ==
    [Node(NodeLiteralBlock, id) EXCEPT !.Text = i.Text, !.Length = i.Length]

\* newBlockQuote(i, level, &t.id)
newBlockQuote(i, level, id) ==
    [Node(NodeBlockQuote, id) EXCEPT !.Line = i.Line, !.Level = level]

-----------------------------------------------------------------------------
(* The Tree and its token window: part_000 lines 145-164, 239-306.  The   *)
(* array t.token is a sequence whose element k+1 is the Go element k.     *)

tokenZero == 3

\* the default indent width
indentWidth == 4

\* len(t.token)
tokenLen == 7

\* New(name): nodeTarget is a list of its own (-1) until parse sets it
New ==
    [token |-> [k \in 1..tokenLen |-> NilItem],
     tokenPeekCount |-> 0, tokenBackupCount |-> 0,
     Nodes |-> <<>>, nodeTarget |-> -1, Errors |-> <<>>,
     sectionLevels |-> <<>>, id |-> 0,
     indentWidth |-> indentWidth, indentLevel |-> 0]

\* t.token[k] for a Go index k
Tree_token(t, k) == t.token[k + 1]

\* a slip that looks one token too far back
Tree_peekBack_tooFar(t, pos) == Tree_token(t, tokenZero - pos - 1)

\* Tree.peekBack(pos)
Tree_peekBack(t, pos) == Tree_token(t, tokenZero - pos)

\* one round of the outer loop of Tree.skip: every pointer moves left
Tree_shiftLeft(token) ==
    [k \in 1..tokenLen |-> IF k < tokenLen THEN token[k + 1] ELSE NilItem]

\* Tree.skip(num)
RECURSIVE Tree_skip(_, _)
Tree_skip(t, num) ==
    IF num <= 0 THEN t
    ELSE Tree_skip([t EXCEPT !.token = Tree_shiftLeft(t.token)], num - 1)

\* Tree.backup: the tree it leaves and the item it returns
Tree_backup(t) ==
    [t EXCEPT !.tokenBackupCount = @ + 1,
              !.token = [k \in 1..tokenLen |->
                            IF k > 1 THEN t.token[k - 1] ELSE NilItem]]

Tree_backupItem(t) ==
    Tree_token(Tree_backup(t), tokenZero - Tree_backup(t).tokenBackupCount)

\* Tree.peek(pos), the loop from i on.  r.feed holds the items the lexer
\* hands over when asked (t.lex.nextItem()), r.pulled counts those taken;
\* r.blocked: the call waits, behind t.tokenPeekCount++ and in the round
\* r.i of the loop, for an item the feed does not hold; r.panic: an index
\* beyond the array, or pos < 1.
\* line 272: the item taken from the lexer is stored and is the result
Tree_peek_nextItem(r, i, got) ==
    [r EXCEPT !.t.token[tokenZero + r.t.tokenPeekCount + i + 1] = got,
              !.nItem = got,
              !.pulled = @ + 1]

RECURSIVE Tree_peek_loop(_, _, _)
Tree_peek_loop(r, i, pos) ==
    IF i >= pos \/ r.blocked \/ r.panic THEN r
    ELSE IF r.t.tokenPeekCount > i
    THEN Tree_peek_loop(
            [r EXCEPT !.nItem = Tree_token(r.t, tokenZero + i)], i + 1, pos)
    ELSE IF tokenZero + r.t.tokenPeekCount + i + 1 >= tokenLen
    THEN [r EXCEPT !.panic = TRUE]
    ELSE IF Tree_token(r.t, tokenZero + r.t.tokenPeekCount + i + 1) = NilItem
    THEN IF r.pulled >= Len(r.feed)
         THEN [r EXCEPT !.t.tokenPeekCount = @ + 1, !.blocked = TRUE,
                        !.i = i]
         ELSE Tree_peek_loop(
                Tree_peek_nextItem([r EXCEPT !.t.tokenPeekCount = @ + 1], i,
                                   r.feed[r.pulled + 1]), i + 1, pos)
    ELSE Tree_peek_loop(
            [r EXCEPT !.nItem =
                Tree_token(r.t, tokenZero + r.t.tokenPeekCount + i)],
            i + 1, pos)

Tree_peek(t, pos, feed) ==
    IF pos < 1
    THEN [t |-> t, nItem |-> NilItem, feed |-> feed, pulled |-> 0,
          blocked |-> FALSE, panic |-> TRUE,
          i |-> 0]
    ELSE Tree_peek_loop([t |-> t, nItem |-> NilItem, feed |-> feed,
                         pulled |-> 0, blocked |-> FALSE, panic |-> FALSE,
          i |-> 0],
                        0, pos)

\* Tree.next, lines 300-301: the item taken from the lexer is stored and
\* the counts are reset
Tree_next_nextItem(r, got) ==
    [r EXCEPT !.t.token[tokenZero + 1] = got,
              !.t.tokenBackupCount = 0,
              !.t.tokenPeekCount = 0,
              !.nItem = got,
              !.pulled = @ + 1,
              !.blocked = FALSE]

\* the call of Tree.next behind skip(1), waiting for an item
Tree_next_wait(t, feed) ==
    [t |-> Tree_skip(t, 1), nItem |-> NilItem, feed |-> feed,
     pulled |-> 0, blocked |-> TRUE, panic |-> FALSE, i |-> 0]

\* the call of Tree.next that finds peeked tokens in the window
Tree_next_peeked(t1, feed) ==
    [t |-> t1, nItem |-> Tree_token(t1, tokenZero), feed |-> feed,
     pulled |-> 0, blocked |-> FALSE, panic |-> FALSE, i |-> 0]

\* Tree.next, with the same feed
Tree_next(t, feed) ==
    IF t.tokenPeekCount > 0
    THEN Tree_next_peeked([Tree_skip(t, t.tokenPeekCount) EXCEPT
                                !.tokenBackupCount = 0, !.tokenPeekCount = 0],
                          feed)
    ELSE IF Len(feed) = 0
    THEN Tree_next_wait(t, feed)
    ELSE Tree_next_nextItem(Tree_next_wait(t, feed), feed[1])

-----------------------------------------------------------------------------
(* The parser's operations work on ps = [t, reads, nodes, n, panic]: the *)
(* Tree, what the reads of l.pos find, the heap, the node returned (a     *)
(* heap index, 0 for nil) and whether the call ended in a run-time panic. *)

Panic(ps) == [ps EXCEPT !.panic = TRUE]

\* Tree.errorf: the entry records what was reported and the line number
\* t.lex.lineNumber() gives it, read from the cursor of the running lexer;
\* ps.reads holds the values of l.pos the reads of this loop body find, the
\* next one first
Tree_errorf(ps, what) ==
    IF ~SliceOK(0, ps.reads[1] - 1) THEN Panic(ps)
    ELSE [ps EXCEPT
            !.t.Errors =
                Append(@, [what |-> what,
                           line |-> lexer_lineNumber(ps.reads[1])]),
            !.reads = IF Len(@) > 1 THEN Tail(@) ELSE @]

\* a node is constructed: it takes the next id and the next heap index
Alloc(ps, node) ==
    [ps EXCEPT !.t.id = @ + 1, !.nodes = Append(@, node),
               !.n = Len(ps.nodes) + 1]

\* the contents of the node list a reference names
ListOf(ps, ref) == IF ref = 0 THEN ps.t.Nodes ELSE ps.nodes[ref].NodeList

\* NodeList.append through a reference
NodeList_append(ps, ref, n) ==
    IF ref = 0 THEN [ps EXCEPT !.t.Nodes = Append(@, n)]
    ELSE IF ref > 0 THEN [ps EXCEPT !.nodes[ref].NodeList = Append(@, n)]
    ELSE ps

\* sectionLevels.FindByRune: the heap index of the section, 0 for nil
RECURSIVE FindByRune_from(_, _, _, _)
FindByRune_from(levels, heap, adornChar, k) ==
    IF k > Len(levels) THEN 0
    ELSE IF heap[levels[k]].UnderLine.Rune = adornChar THEN levels[k]
    ELSE FindByRune_from(levels, heap, adornChar, k + 1)

sectionLevels_FindByRune(levels, heap, adornChar) ==
    FindByRune_from(levels, heap, adornChar, 1)

\* a slip that numbers a new level from zero
sectionLevels_Add_fromZero(ps, section) ==
    LET levels == ps.t.sectionLevels
        sec == sectionLevels_FindByRune(levels, ps.nodes,
                                        ps.nodes[section].UnderLine.Rune)
    IN  IF sec # 0 /\ ps.nodes[sec].Text = ps.nodes[section].Text
        THEN [exists |-> TRUE, sec |-> sec, ps |-> ps]
        ELSE [exists |-> FALSE, sec |-> sec,
              ps |-> [ps EXCEPT
                        !.nodes[section].Level =
                            IF sec # 0 THEN ps.nodes[sec].Level
                            ELSE Len(levels),
                        !.t.sectionLevels = Append(@, section)]]

\* sectionLevels.Add(section): [exists, sec] and the registry and heap it
\* leaves; section is the heap index of the new SectionNode
sectionLevels_Add(ps, section) ==
    LET levels == ps.t.sectionLevels
        sec == sectionLevels_FindByRune(levels, ps.nodes,
                                        ps.nodes[section].UnderLine.Rune)
    IN  IF sec # 0 /\ ps.nodes[sec].Text = ps.nodes[section].Text
        THEN [exists |-> TRUE, sec |-> sec, ps |-> ps]
        ELSE [exists |-> FALSE, sec |-> sec,
              ps |-> [ps EXCEPT
                        !.nodes[section].Level =
                            IF sec # 0 THEN ps.nodes[sec].Level
                            ELSE Len(levels) + 1,
                        !.t.sectionLevels = Append(@, section)]]

\* Tree.systemMessage: the token before the current one that is quoted
Tree_systemMessage_back(t) ==
    IF Tree_peekBack(t, 1).Type = itemSpace
    THEN Tree_token(t, tokenZero - 2)
    ELSE Tree_token(t, tokenZero - 1)

\* Tree.systemMessage: lbText, the text of the literal block
Tree_systemMessage_lbText(t, err) ==
    IF err \in {warningShortUnderline, errorUnexpectedSectionTitle}
    THEN Tree_systemMessage_back(t).Text \o <<NL>>
            \o Tree_token(t, tokenZero).Text
    ELSE Tree_token(t, tokenZero).Text

\* Tree.systemMessage: lbTextLen
Tree_systemMessage_lbTextLen(t, err) ==
    IF err \in {warningShortUnderline, errorUnexpectedSectionTitle}
    THEN Len(Tree_systemMessage_lbText(t, err)) + 1
    ELSE Len(Tree_systemMessage_lbText(t, err))

\* a slip that appends the literal block in front of the explanation
Tree_systemMessage_link_swapped(lb) ==
    [lb EXCEPT !.nodes[lb.n - 2].NodeList = <<lb.n, lb.n - 1>>, !.n = lb.n - 2]

\* s.NodeList = append(s.NodeList, msg, lb); return s.  lb is the state
\* behind the three constructors, whose nodes are the last three of the heap
Tree_systemMessage_link(lb) ==
    [lb EXCEPT !.nodes[lb.n - 2].NodeList = <<lb.n - 1, lb.n>>, !.n = lb.n - 2]

\* Tree.systemMessage(err)
Tree_systemMessage(ps, err) ==
    IF Tree_token(ps.t, tokenZero) = NilItem THEN Panic(ps)
    ELSE IF /\ err \in {warningShortUnderline, errorUnexpectedSectionTitle}
            /\ (Tree_peekBack(ps.t, 1) = NilItem
                    \/ Tree_systemMessage_back(ps.t) = NilItem)
    THEN Panic(ps)
    ELSE Tree_systemMessage_link(
            Alloc(Alloc(Alloc(ps,
                newSystemMessage(
                    [NilItem EXCEPT !.Type = itemSystemMessage,
                                    !.Line = Tree_token(ps.t, tokenZero).Line],
                    parserMessage_Level(err), ps.t.id + 1)),
                newParagraph(
                    [NilItem EXCEPT !.Text = parserMessage_Message(err),
                                    !.Length = Len(parserMessage_Message(err))],
                    ps.t.id + 2)),
                newLiteralBlock(
                    [NilItem EXCEPT
                        !.Type = itemLiteralBlock,
                        !.Text = Tree_systemMessage_lbText(ps.t, err),
                        !.Length = Tree_systemMessage_lbTextLen(ps.t, err)],
                    ps.t.id + 3)))

\* a slip that reports only an underline shorter than the title
Tree_section_short_onlyShorter(title, underAdorn) ==
    title.Length > underAdorn.Length

\* Tree.section, line 357: the test for the short-underline warning
Tree_section_short(title, underAdorn) == title.Length # underAdorn.Length

\* Tree.section, lines 356-363: the warning becomes the Section's child
Tree_section_child(sysMessage, sec) ==
    IF sysMessage.panic THEN sysMessage
    ELSE [sysMessage EXCEPT !.nodes[sec].NodeList = Append(@, sysMessage.n),
                            !.n = sec]

Tree_section_warn(reported, sec, title, underAdorn) ==
    IF reported.panic THEN reported
    ELSE IF Tree_section_short(title, underAdorn)
    THEN Tree_section_child(
            Tree_systemMessage(reported, warningShortUnderline), sec)
    ELSE [reported EXCEPT !.n = sec]

\* Tree.section, lines 347-353: add is what sectionLevels.Add returned for
\* the Section add.ps.n
Tree_section_target(add) ==
    IF add.exists /\ add.sec # 0
    THEN Tree_errorf(add.ps, "previouslyParsed")
    ELSE IF ~add.exists /\ add.sec # 0
    THEN IF \/ add.ps.nodes[add.ps.n].Level - 2 < 0
            \/ add.ps.nodes[add.ps.n].Level - 2 >= Len(add.ps.t.sectionLevels)
         THEN Panic(add.ps)
         ELSE [add.ps EXCEPT !.t.nodeTarget =
                 add.ps.t.sectionLevels[add.ps.nodes[add.ps.n].Level - 2 + 1]]
    ELSE add.ps

\* Tree.section, lines 345-363: the Section is built and registered
Tree_section_build(ps, title, overAdorn, underAdorn) ==
    IF ps.panic THEN ps
    ELSE IF title = NilItem \/ Len(underAdorn.Text) = 0 THEN Panic(ps)
    ELSE Tree_section_warn(
            Tree_section_target(
                sectionLevels_Add(
                    Alloc(ps, newSection(title, overAdorn, underAdorn,
                                         ps.t.id + 1)),
                    Len(ps.nodes) + 1)),
            Len(ps.nodes) + 1, title, underAdorn)

\* Tree.section, lines 337-343: the checks of the overline
Tree_section_overline(ps, title, overAdorn, underAdorn) ==
    IF overAdorn # NilItem /\ title.Length # overAdorn.Length
    THEN Tree_errorf(ps, "overLineLength")
    ELSE IF overAdorn # NilItem /\ overAdorn.Text # underAdorn.Text
    THEN Tree_errorf(ps, "overLineMismatch")
    ELSE ps

\* Tree.section, lines 314-329: overAdorn, nil unless overline is set
Tree_section_overAdorn(t) ==
    IF /\ Tree_peekBack(t, 1) # NilItem
       /\ Tree_peekBack(t, 1).Type = itemTitle
       /\ Tree_peekBack(t, 2) # NilItem
       /\ Tree_peekBack(t, 2).Type = itemSectionAdornment
    THEN Tree_peekBack(t, 1)
    ELSE NilItem

\* Tree.section(i)
Tree_section(ps, i) ==
    IF Tree_peekBack(ps.t, 1) # NilItem /\ Tree_peekBack(ps.t, 1).Type = itemSpace
    THEN IF Tree_peekBack(ps.t, 2) = NilItem THEN Panic(ps)
         ELSE IF Tree_peekBack(ps.t, 2).Type = itemTitle
         THEN Tree_systemMessage(ps, errorUnexpectedSectionTitle)
         ELSE Tree_systemMessage(ps, errorUnexpectedSectionTitleOrTransition)
    ELSE IF i.Type = itemSpace
    THEN Tree_systemMessage([ps EXCEPT !.t = Tree_backup(ps.t)],
                            errorUnexpectedSectionTitle)
    ELSE Tree_section_build(
            Tree_section_overline(ps, Tree_peekBack(ps.t, 1),
                                  Tree_section_overAdorn(ps.t), i),
            Tree_peekBack(ps.t, 1), Tree_section_overAdorn(ps.t), i)

\* a slip that opens a block quote at the tracked level again
Tree_indent_always(ps, i) ==
    IF Tree_peekBack(ps.t, 1) = NilItem THEN Panic(ps)
    ELSE IF Tree_peekBack(ps.t, 1).Type = itemBlankLine
    THEN Alloc([ps EXCEPT !.t.indentLevel = i.Length \div ps.t.indentWidth],
               newBlockQuote([NilItem EXCEPT !.Type = itemBlockquote,
                                             !.Line = i.Line],
                             i.Length \div ps.t.indentWidth, ps.t.id + 1))
    ELSE [ps EXCEPT !.n = 0]

\* Tree.indent(i)
Tree_indent(ps, i) ==
    LET level == i.Length \div ps.t.indentWidth
    IN  IF Tree_peekBack(ps.t, 1) = NilItem THEN Panic(ps)
        ELSE IF Tree_peekBack(ps.t, 1).Type = itemBlankLine
        THEN IF ps.t.indentLevel = level
             THEN [ps EXCEPT !.n = 0]
             ELSE Alloc([ps EXCEPT !.t.indentLevel = level],
                        newBlockQuote([NilItem EXCEPT !.Type = itemBlockquote,
                                                      !.Line = i.Line],
                                      level, ps.t.id + 1))
        ELSE [ps EXCEPT !.n = 0]

\* a slip that never descends into the node appended
Tree_parse_append_flat(ps) == NodeList_append(ps, ps.t.nodeTarget, ps.n)

\* Tree.parse, lines 227-232: the node is appended to the target, and a
\* Section or BlockQuote becomes the target
Tree_parse_append(ps) ==
    IF ps.nodes[ps.n].Type \in {NodeSection, NodeBlockQuote}
    THEN [NodeList_append(ps, ps.t.nodeTarget, ps.n) EXCEPT
            !.t.nodeTarget = ps.n]
    ELSE NodeList_append(ps, ps.t.nodeTarget, ps.n)

\* Tree.parse, lines 211-232: a call that panicked ends the loop, a nil node
\* is skipped (continue), any other node n is appended
Tree_parse_node(r) ==
    IF r.panic \/ r.n = 0 THEN r ELSE Tree_parse_append(r)

\* Tree.parse, lines 204-232: the body of the loop for the token next() gave
Tree_parse_body(ps, token) ==
    IF token.Type = itemSectionAdornment
    THEN Tree_parse_node(Tree_section(ps, token))
    ELSE IF token.Type = itemParagraph
    THEN Tree_parse_node(Alloc(ps, newParagraph(token, ps.t.id + 1)))
    ELSE IF token.Type = itemSpace
    THEN Tree_parse_node(Tree_indent(ps, token))
    ELSE IF token.Type \in {itemTitle, itemBlankLine, itemEOF}
    THEN ps
    ELSE Tree_errorf(ps, "notImplemented")

-----------------------------------------------------------------------------
(* The texts explored *)

Alphabet == {"A", "=", "-", " ", NL}

\* every text over Alphabet of at most n runes
Texts(n) == UNION {[1..k -> Alphabet] : k \in 0..n}

LineVocabulary ==
    {<<"A", "B", "C", NL>>,
     <<"=", "=", "=", NL>>,
     <<"-", "-", "-", NL>>,
     <<NL>>,
     <<" ", " ", " ", " ", "q", NL>>}

\* every text of at most n lines of LineVocabulary
RECURSIVE LineTexts(_)
LineTexts(n) ==
    IF n = 0 THEN {<<>>}
    ELSE LET shorter == LineTexts(n - 1)
         IN  shorter \cup {p \o ln : p \in shorter, ln \in LineVocabulary}

\* "Title\n=====\n"
Scenario1 == <<"T", "i", "t", "l", "e", NL, "=", "=", "=", "=", "=", NL>>

\* "Title\n===\n"
Scenario2 == <<"T", "i", "t", "l", "e", NL, "=", "=", "=", NL>>

\* "=====\n"
Scenario3 == <<"=", "=", "=", "=", "=", NL>>

\* "A\n=\n\nB\n=\n"
Scenario4 == <<"A", NL, "=", NL, NL, "B", NL, "=", NL>>

\* "text\n\n    quoted\n"
Scenario5 == <<"t", "e", "x", "t", NL, NL, " ", " ", " ", " ", "q", "u", "o", "t", "e", "d", NL>>

Scenarios == {Scenario1, Scenario2, Scenario3, Scenario4, Scenario5}

\* "ABC\n===\nDEF\n---\nGHI\n---\nJKL\n~~~\n": four well-formed sections,
\* the third reusing the rune of the second
FourSections ==
    <<"A", "B", "C", NL, "=", "=", "=", NL, "D", "E", "F", NL, "-", "-",
    "-", NL, "G", "H", "I", NL, "-", "-", "-", NL, "J", "K", "L", NL, "~",
    "~", "~", NL>>

\* "ABC\n===\nABC\n===\n": the same title and rune twice
TwiceTheSame ==
    <<"A", "B", "C", NL, "=", "=", "=", NL, "A", "B", "C", NL, "=", "=",
    "=", NL>>

\* "\nA A==\n": the lexer sends BlankLine, Space "A ", SectionAdornment "A=="
SpaceThenAdornment == <<NL, "A", " ", "A", "=", "=", NL>>

\* "ABC\n===\nDEF\n---\nGHI\n---\nGHI\n---\n": the title and rune of the
\* third section are used again by the fourth, the rune first by the second
RepeatedLater ==
    <<"A", "B", "C", NL, "=", "=", "=", NL, "D", "E", "F", NL, "-", "-",
    "-", NL, "G", "H", "I", NL, "-", "-", "-", NL, "G", "H", "I", NL, "-",
    "-", "-", NL>>

\* "ABC\n===\nDEF\n===\n": the rune of the first section under another title
SameRuneOtherTitle ==
    <<"A", "B", "C", NL, "=", "=", "=", NL, "D", "E", "F", NL, "=", "=",
    "=", NL>>

\* the title and underline of the first section again, with text behind
\* them that the lexer scans while the parser reports
TwiceThenMore ==
    <<"A", "B", "C", NL, "=", "=", "=", NL, "A", "B", "C", NL, "=", "=",
    "=", NL, NL, "X", "Y", "Z", NL>>

\* "ABC\n ===\n": a title whose underline is indented
TitleSpaceAdornment == <<"A", "B", "C", NL, " ", "=", "=", "=", NL>>

Inputs ==
    Texts(MaxLen) \cup LineTexts(MaxLines) \cup Scenarios
        \cup {FourSections, TwiceTheSame, SpaceThenAdornment, RepeatedLater,
              SameRuneOtherTitle, TwiceThenMore, TitleSpaceAdornment}

-----------------------------------------------------------------------------
(* The two goroutines *)

Init ==
    /\ input \in Inputs
    /\ lx = [lex EXCEPT !.pc = "notStarted"]
    /\ emitted = <<>>
    /\ tr = New
    /\ nodes = <<>>
    /\ made = [token |-> NilItem, n |-> 0]
    /\ ppc = "Parse"

Crashed == lx.pc = "panic" \/ ppc = "panic"

\* Parse / Tree.Parse / the head of Tree.parse: lex() starts the lexer
\* goroutine and the root list becomes the target
ParseStart ==
    /\ ppc = "Parse"
    /\ lx' = lex
    /\ tr' = [tr EXCEPT !.nodeTarget = 0]
    /\ ppc' = "peek"
    /\ UNCHANGED <<input, emitted, nodes, made>>

\* the lexer goroutine runs to its next control point
LexStep ==
    /\ ~Crashed
    /\ lx.pc \notin LexerBlocked \cup {"notStarted"}
    /\ lx' = lexer_run(lx)
    /\ UNCHANGED <<input, emitted, tr, nodes, made, ppc>>

\* where the loop of Tree.parse goes with what t.peek(1) returned
Peek_return(r) ==
    IF r.panic \/ r.nItem = NilItem THEN "panic"
    ELSE IF r.nItem.Type = itemEOF THEN "done"
    ELSE "next"

Peek_call(r) ==
    /\ tr' = r.t
    /\ ppc' = IF r.blocked THEN "nextItem" ELSE Peek_return(r)

\* t.peek(1) at the head of the loop of Tree.parse, up to the receive in
\* lexer.nextItem, where the parser waits for the lexer ("nextItem")
Peek ==
    /\ ~Crashed
    /\ ppc = "peek"
    /\ Peek_call(Tree_peek(tr, 1, <<>>))
    /\ UNCHANGED <<input, lx, emitted, nodes, made>>

Receive_peek(r) ==
    /\ tr' = r.t
    /\ ppc' = Peek_return(r)

\* the handoff: the lexer is at its send and the parser at its receive; the
\* parser's nextItem sets lastPos, peek(1) stores the item and returns, and
\* the lexer is free to go on behind its send
Receive ==
    /\ ~Crashed
    /\ ppc = "nextItem"
    /\ lx.pc = "send"
    /\ Receive_peek(
          Tree_peek_loop(
              Tree_peek_nextItem(
                  [t |-> tr, nItem |-> NilItem, feed |-> <<lx.out>>,
                   pulled |-> 0, blocked |-> FALSE, panic |-> FALSE,
          i |-> 0],
                  0, lx.out),
              1, 1))
    /\ emitted' = Append(emitted, lx.out)
    /\ lx' = [lx EXCEPT !.lastPos = lx.out.Position, !.pc = lx.cont]
    /\ UNCHANGED <<input, nodes, made>>

\* token := t.next() and the body of the loop of Tree.parse
Dispatch_body(token, ps) ==
    /\ tr' = ps.t
    /\ nodes' = ps.nodes
    /\ made' = [token |-> token, n |-> IF ps.panic THEN 0 ELSE ps.n]
    /\ ppc' = IF ps.panic THEN "panic"
              ELSE IF token.Type = itemEOF THEN "done"
              ELSE "peek"

\* the values two successive unsynchronised reads of l.pos can give while
\* the lexer goroutine goes through the positions w
ReadPairs(w) ==
    UNION {{<<w[i], w[j]>> : j \in i..Len(w)} : i \in 1..Len(w)}

Dispatch_next(r, reads) ==
    /\ ~r.blocked
    /\ Dispatch_body(r.nItem,
            Tree_parse_body(
                [t |-> r.t, reads |-> reads, nodes |-> nodes, n |-> 0,
                 panic |-> FALSE],
                r.nItem))

\* the lexer goroutine runs on while the body runs: each errorf of the body
\* reads l.pos at a moment of its own, the second one not before the first
Dispatch ==
    /\ ~Crashed
    /\ ppc = "next"
    /\ \E reads \in ReadPairs(lexer_positions(lx)) :
          Dispatch_next(Tree_next(tr, <<>>), reads)
    /\ UNCHANGED <<input, lx, emitted>>

Next == ParseStart \/ LexStep \/ Peek \/ Receive \/ Dispatch

Spec == Init /\ [][Next]_vars

-----------------------------------------------------------------------------
(* The token window by itself: a parser that calls next(), peek(n) and     *)
(* backup() on a fresh Tree in any order, with a lexer that hands over the *)
(* tokens of Feed one after the other, each in a step of its own while the *)
(* call waits for it.  emitted holds the tokens taken from the lexer so   *)
(* far and made the calls that have returned so far, each with the item it *)
(* returned and the number of tokens it took from the lexer.               *)

\* the lexer has MaxFeed tokens to hand over
MaxFeed == 5

\* at most MaxCalls calls are made on the window
MaxCalls == 5

\* the greatest n of a peek(n) that is called
MaxPeek == 2

\* the k-th token of the lexer
FeedItem(k) == Item(itemParagraph, k, k, <<"A">>)

Feed == [k \in 1..MaxFeed |-> FeedItem(k)]

\* what the lexer has not handed over yet
FeedLeft == SubSeq(Feed, Len(emitted) + 1, MaxFeed)

Call(op, pos, r) ==
    [op |-> op, pos |-> pos, token |-> r.nItem, pulled |-> r.pulled]

WindowInit ==
    /\ input = <<>>
    /\ lx = [lex EXCEPT !.pc = "notStarted"]
    /\ emitted = <<>>
    /\ tr = New
    /\ nodes = <<>>
    /\ made = <<>>
    /\ ppc = "window"

\* the place where a call waits for an item of the lexer: Tree.next at
\* line 300, Tree.peek(pos) at line 272 in the round i of its loop
WaitAt(op, pos, i) ==
    IF op = "next" THEN "next_300"
    ELSE "peek_272_" \o ToString(pos) \o "_" \o ToString(i)

Waits ==
    {[op |-> "next", pos |-> 0, i |-> 0]} \cup
    UNION {{[op |-> "peek", pos |-> p, i |-> k] : k \in 0..(p - 1)} :
            p \in 1..MaxPeek}

\* the call the parser is waiting in
Waiting == CHOOSE w \in Waits : WaitAt(w.op, w.pos, w.i) = ppc

\* the number of items the calls that have returned have taken
RECURSIVE Window_taken(_)
Window_taken(k) ==
    IF k = 0 THEN 0 ELSE made[k].pulled + Window_taken(k - 1)

\* the call went on to r and waits there, has returned or has ended in a
\* panic: the window and the history after it
Window_return(op, pos, r) ==
    /\ tr' = r.t
    /\ made' = IF r.blocked THEN made ELSE Append(made, Call(op, pos, r))
    /\ ppc' = IF r.blocked THEN WaitAt(op, pos, r.i)
              ELSE IF r.panic THEN "panic"
              ELSE "window"
    /\ UNCHANGED <<input, nodes>>

\* Tree.backup as a call: it counts and shifts, and then the index
\* tokenZero - tokenBackupCount of the item it returns must not be negative
Window_backup(t) ==
    IF tokenZero - (t.tokenBackupCount + 1) < 0
    THEN [t |-> Tree_backup(t), nItem |-> NilItem, feed |-> <<>>, pulled |-> 0,
          blocked |-> FALSE, panic |-> TRUE,
          i |-> 0]
    ELSE [t |-> Tree_backup(t), nItem |-> Tree_backupItem(t), feed |-> <<>>,
          pulled |-> 0, blocked |-> FALSE, panic |-> FALSE,
          i |-> 0]

\* next() is called: it returns a peeked token, or shifts and waits
WindowNext ==
    /\ ppc = "window"
    /\ Len(made) < MaxCalls
    /\ Window_return("next", 0, Tree_next(tr, <<>>))
    /\ UNCHANGED <<lx, emitted>>

\* peek(pos) is called: it runs up to its return or to its first wait
WindowPeek ==
    /\ ppc = "window"
    /\ Len(made) < MaxCalls
    /\ \E pos \in 1..MaxPeek :
          Window_return("peek", pos, Tree_peek(tr, pos, <<>>))
    /\ UNCHANGED <<lx, emitted>>

WindowBackup ==
    /\ ppc = "window"
    /\ Len(made) < MaxCalls
    /\ Window_return("backup", 0, Window_backup(tr))
    /\ UNCHANGED <<lx, emitted>>

\* the call the parser waits in, as it stands at the wait
Window_waiting(w) ==
    [t |-> tr, nItem |-> NilItem, feed |-> <<>>,
     pulled |-> Len(emitted) - Window_taken(Len(made)),
     blocked |-> FALSE, panic |-> FALSE, i |-> w.i]

\* the call goes on with the item got: to its return, or to its next wait
Window_resume(w, got) ==
    IF w.op = "next"
    THEN Tree_next_nextItem(Window_waiting(w), got)
    ELSE Tree_peek_loop(Tree_peek_nextItem(Window_waiting(w), w.i, got),
                        w.i + 1, w.pos)

\* lexer.nextItem: the lexer hands its next item to the waiting call
WindowReceive ==
    /\ ppc \in {WaitAt(w.op, w.pos, w.i) : w \in Waits}
    /\ FeedLeft # <<>>
    /\ Window_return(Waiting.op, Waiting.pos,
                     Window_resume(Waiting, FeedLeft[1]))
    /\ emitted' = Append(emitted, FeedLeft[1])
    /\ lx' = [lx EXCEPT !.lastPos = FeedLeft[1].Position]

WindowStep == WindowNext \/ WindowPeek \/ WindowBackup \/ WindowReceive

WindowSpec == WindowInit /\ [][WindowStep]_vars

-----------------------------------------------------------------------------
(* What the claims speak of *)

\* the parser goroutine has left the loop of Tree.parse: Parse returns
Returned == ppc = "done"

\* the heap indices of the nodes of a type
NodesOfType(type) == {k \in 1..Len(nodes) : nodes[k].Type = type}

\* the node k is an element of the root list or of some node's NodeList
InTree(k) ==
    \/ \E j \in 1..Len(tr.Nodes) : tr.Nodes[j] = k
    \/ \E m \in 1..Len(nodes) :
          \E j \in 1..Len(nodes[m].NodeList) : nodes[m].NodeList[j] = k

\* the node k is a SystemMessage of the severity and with the explanation
IsSystemMessage(k, severity, message) ==
    /\ nodes[k].Type = NodeSystemMessage
    /\ nodes[k].Severity = severity
    /\ Len(nodes[k].NodeList) >= 1
    /\ nodes[nodes[k].NodeList[1]].Type = NodeParagraph
    /\ nodes[nodes[k].NodeList[1]].Text = message

IsShortUnderline(k) ==
    IsSystemMessage(k, levelWarning, Msg_warningShortUnderline)

IsUnexpectedTitleOrTransition(k) ==
    IsSystemMessage(k, levelSevere, Msg_errorUnexpectedSectionTitleOrTransition)

\* the underline rune of the k-th section of the registry, the place where
\* that rune is first used, and how many distinct runes were used up to there
RegistryRune(k) == nodes[tr.sectionLevels[k]].UnderLine.Rune

FirstUse(k) ==
    CHOOSE j \in 1..k :
        /\ RegistryRune(j) = RegistryRune(k)
        /\ \A i \in 1..(j - 1) : RegistryRune(i) # RegistryRune(k)

RuneRank(k) == Cardinality({RegistryRune(j) : j \in 1..FirstUse(k)})

-----------------------------------------------------------------------------
(* The claims *)

\* C1: for every input text Parse runs to completion: neither the lexer
\* goroutine nor the parser ever ends in a run-time panic (a nil item, an
\* index out of range, a slice of the input out of range).
C1_NeverPanics == lx.pc # "panic" /\ ppc # "panic"

\* C2: for every input text the lexer's state machine comes to emit EOF and
\* halts: short of a crash of the program it never enters a loop that cannot
\* end, no item follows an EOF item, and a halted lexer has sent EOF last.
C2_LexerEndsWithEOF ==
    ~Crashed =>
        /\ lx.pc # "spin"
        /\ \A k \in 1..Len(emitted) :
              emitted[k].Type = itemEOF => k = Len(emitted)
        /\ lx.pc = "halted" =>
              /\ Len(emitted) > 0
              /\ emitted[Len(emitted)].Type = itemEOF

\* C3: the k-th distinct underline rune, in order of first appearance, has
\* level k, however many sections reusing earlier runes were registered
\* in between.
C3_LevelIsRuneRank ==
    \A k \in 1..Len(tr.sectionLevels) :
        nodes[tr.sectionLevels[k]].Level = RuneRank(k)

\* C4: two Sections of one parse with the same underline rune have the same
\* level, whether their titles are equal or differ.
C4_RuneHasOneLevel ==
    \A a, b \in {k \in NodesOfType(NodeSection) : InTree(k)} :
        nodes[a].UnderLine.Rune = nodes[b].UnderLine.Rune
            => nodes[a].Level = nodes[b].Level

\* C5: a Section whose underline length differs from its title length has a
\* short-underline SystemMessage as the first element of its child list, and
\* a Section whose lengths agree has no such child.
C5_ShortUnderlineFirst ==
    \A k \in {s \in NodesOfType(NodeSection) : InTree(s)} :
        IF nodes[k].Length # nodes[k].UnderLine.Length
        THEN /\ Len(nodes[k].NodeList) >= 1
             /\ IsShortUnderline(nodes[k].NodeList[1])
        ELSE \A j \in 1..Len(nodes[k].NodeList) :
                ~IsShortUnderline(nodes[k].NodeList[j])

\* C5's case: a Section of the tree with a short underline that has taken
\* further content behind its warning
C5_Witness ==
    \E k \in NodesOfType(NodeSection) :
        /\ InTree(k)
        /\ nodes[k].Length # nodes[k].UnderLine.Length
        /\ Len(nodes[k].NodeList) >= 2
        /\ Returned

\* C6: a SectionAdornment token whose immediate predecessor is a
\* SectionAdornment too makes section() yield an "Unexpected section title
\* or transition." SystemMessage, never a Section.
C6_AdornmentAfterAdornment ==
    (/\ ppc \in {"peek", "next", "done"}
     /\ made.token.Type = itemSectionAdornment
     /\ Tree_token(tr, tokenZero) = made.token
     /\ Tree_peekBack(tr, 1).Type = itemSectionAdornment)
        => /\ made.n # 0
           /\ IsUnexpectedTitleOrTransition(made.n)

\* C7: "Title\n=====\n" parses to a root list of exactly one Section of
\* level 1, text "Title", underline rune '=' of length 5, with no children,
\* and to no error.
C7_Scenario1 ==
    input = Scenario1 =>
        /\ ~Crashed
        /\ lx.pc # "spin"
        /\ Returned =>
              /\ Len(tr.Nodes) = 1
              /\ nodes[tr.Nodes[1]].Type = NodeSection
              /\ nodes[tr.Nodes[1]].Level = 1
              /\ nodes[tr.Nodes[1]].Text = <<"T", "i", "t", "l", "e">>
              /\ nodes[tr.Nodes[1]].UnderLine.Rune = "="
              /\ nodes[tr.Nodes[1]].UnderLine.Length = 5
              /\ nodes[tr.Nodes[1]].NodeList = <<>>
              /\ tr.Errors = <<>>

C7_Witness == input = Scenario1 /\ Returned /\ lx.pc = "halted"

\* C8: "=====\n" parses to completion and yields a SystemMessage of severity
\* severe with the message "Unexpected section title or transition.", and
\* no Section.
C8_Scenario3 ==
    input = Scenario3 =>
        /\ ~Crashed
        /\ lx.pc # "spin"
        /\ Returned =>
              /\ \E k \in 1..Len(nodes) :
                    InTree(k) /\ IsUnexpectedTitleOrTransition(k)
              /\ NodesOfType(NodeSection) = {}

\* C9: "A\n=\n\nB\n=\n" parses to two Sections, "A" and "B", both of
\* level 1 and both elements of the root list.
C9_Scenario4 ==
    input = Scenario4 =>
        /\ ~Crashed
        /\ lx.pc # "spin"
        /\ Returned =>
              /\ Cardinality(NodesOfType(NodeSection)) = 2
              /\ \E i, j \in 1..Len(tr.Nodes) :
                    /\ i < j
                    /\ nodes[tr.Nodes[i]].Type = NodeSection
                    /\ nodes[tr.Nodes[i]].Text = <<"A">>
                    /\ nodes[tr.Nodes[i]].Level = 1
                    /\ nodes[tr.Nodes[j]].Type = NodeSection
                    /\ nodes[tr.Nodes[j]].Text = <<"B">>
                    /\ nodes[tr.Nodes[j]].Level = 1

\* C10: "text\n\n    quoted\n" with indent width 4 parses to a root list of a
\* Paragraph "text" followed by a BlockQuote of level 1; the indented content
\* is in the BlockQuote's child list and not in the root list.
C10_Scenario5 ==
    input = Scenario5 =>
        /\ ~Crashed
        /\ lx.pc # "spin"
        /\ Returned =>
              /\ Len(tr.Nodes) = 2
              /\ nodes[tr.Nodes[1]].Type = NodeParagraph
              /\ nodes[tr.Nodes[1]].Text = <<"t", "e", "x", "t">>
              /\ nodes[tr.Nodes[2]].Type = NodeBlockQuote
              /\ nodes[tr.Nodes[2]].Level = 1
              /\ Len(nodes[tr.Nodes[2]].NodeList) = 1
              /\ nodes[nodes[tr.Nodes[2]].NodeList[1]].Type = NodeParagraph
              /\ nodes[nodes[tr.Nodes[2]].NodeList[1]].Text
                    = <<"q", "u", "o", "t", "e", "d">>

C10_Witness == input = Scenario5 /\ Returned /\ lx.pc = "halted"

\* the 1-based column of the rune at the Go offset off: its distance from
\* the start of its line
Column(off) ==
    off + 1 - CHOOSE m \in 0..off :
                /\ m = 0 \/ input[m] = NL
                /\ \A i \in (m + 1)..off : input[i] # NL

\* the number of newlines in front of the Go offset off
NewlinesBefore(off) == Cardinality({i \in 1..off : input[i] = NL})

\* C11: every token the lexer sends has as its position the 1-based column
\* of its first rune within its own line, and as its line 1 plus the number
\* of newlines in front of the token.
C11_ColumnAndLine ==
    lx.pc = "send" =>
        /\ lx.out.Position = Column(lx.start)
        /\ lx.out.Line = 1 + NewlinesBefore(lx.start)

\* C12: every section diagnostic is recorded in the Tree's error list as
\* well as in a SystemMessage node: the error list has at least as many
\* entries as there are SystemMessage nodes.
C12_DiagnosticsInErrorList ==
    Len(tr.Errors) >= Cardinality(NodesOfType(NodeSystemMessage))

\* the severity and the explanation of each kind of diagnostic
KindsOfMessage ==
    {<<levelWarning, Msg_warningShortUnderline>>,
     <<levelSevere, Msg_errorUnexpectedSectionTitle>>,
     <<levelSevere, Msg_errorUnexpectedSectionTitleOrTransition>>}

\* the text is the offending source text: the text of an adornment token the
\* lexer sent, alone (joined = FALSE) or behind the text of an earlier token
\* and a newline (joined = TRUE)
IsOffendingText(text, joined) ==
    \E i \in 1..Len(emitted) :
        /\ emitted[i].Type = itemSectionAdornment
        /\ IF joined
           THEN \E j \in 1..(i - 1) :
                    text = emitted[j].Text \o <<NL>> \o emitted[i].Text
           ELSE text = emitted[i].Text

\* C13: every SystemMessage node has exactly two children, first a Paragraph
\* with the fixed explanation of its kind, then a LiteralBlock with the
\* offending source text; its severity is warning for the short underline
\* ("Title underline too short.") and severe for the two other kinds.
C13_SystemMessageShape ==
    \A k \in NodesOfType(NodeSystemMessage) :
        /\ Len(nodes[k].NodeList) = 2
        /\ nodes[nodes[k].NodeList[1]].Type = NodeParagraph
        /\ <<nodes[k].Severity, nodes[nodes[k].NodeList[1]].Text>>
                \in KindsOfMessage
        /\ nodes[nodes[k].NodeList[2]].Type = NodeLiteralBlock
        /\ IsOffendingText(
                nodes[nodes[k].NodeList[2]].Text,
                nodes[nodes[k].NodeList[1]].Text
                    # Msg_errorUnexpectedSectionTitleOrTransition)

\* C13's case: "Title\n===\n" has been parsed and its Section holds the
\* warning "Title underline too short."
C13_Witness ==
    /\ input = Scenario2
    /\ Returned
    /\ \E k \in NodesOfType(NodeSystemMessage) :
          /\ InTree(k)
          /\ nodes[k].Severity = levelWarning
          /\ nodes[nodes[k].NodeList[1]].Text = Msg_warningShortUnderline

\* C13's second kind: section() has returned the severe "Unexpected section
\* title." for an underline with a Space and a Title in front of it
C13_TitleSeen ==
    /\ made.n # 0
    /\ made.token.Type = itemSectionAdornment
    /\ Tree_peekBack(tr, 1).Type = itemSpace
    /\ Tree_peekBack(tr, 2).Type = itemTitle
    /\ IsSystemMessage(made.n, levelSevere, Msg_errorUnexpectedSectionTitle)
    /\ Len(nodes[made.n].NodeList) = 2
    /\ nodes[nodes[made.n].NodeList[2]].Text =
            Tree_peekBack(tr, 2).Text \o <<NL>> \o made.token.Text

\* C13's third kind: a severe SystemMessage has been returned by section()
C13_SevereSeen ==
    /\ made.n # 0
    /\ nodes[made.n].Type = NodeSystemMessage
    /\ nodes[made.n].Severity = levelSevere

\* the lexer goroutine is at the place of lexStart that calls isSection(l)
CallsIsSection ==
    /\ lx.pc = "lexStart"
    /\ lx.pos - lx.start = 1
    /\ ~isEndOfLine(lexer_current(lx))
    /\ ~isSpace(lexer_current(lx))

\* C14: wherever lexStart calls isSection, the lexer it returns has the pos
\* and the start it was called with, on the true and on the false path, and
\* no item has been put on the way to the parser.
C14_IsSectionRestoresCursor ==
    CallsIsSection =>
        /\ isSection(lx).l.pos = lx.pos
        /\ isSection(lx).l.start = lx.start
        /\ isSection(lx).l.out = lx.out
        /\ isSection(lx).l.pc = lx.pc
        /\ isSection(lx).l.lastItem = lx.lastItem

\* C14's case: isSection answers true after it has looked at the next line,
\* the cursor being on a title and not on a pair of adornment runes
C14_Witness ==
    /\ CallsIsSection
    /\ ~isSectionAdornment(lexer_current(lx))
    /\ isSection(lx).value
    /\ lx.pos > 1

\* the number of next() calls among the first i - 1 calls on the window
NextsBefore(i) == Cardinality({j \in 1..(i - 1) : made[j].op = "next"})

\* C15: with next() and peek(n) only, n = 1 or 2: peek(n) returns the n-th
\* token behind the current one in the order the lexer sends them; the same
\* peek(n) called again at once returns the same token and takes none from
\* the lexer; and the next() calls return the lexer's tokens in order, none
\* skipped and none repeated.
C15_PeekDoesNotConsume ==
    (\A i \in 1..Len(made) : made[i].op # "backup") =>
        \A i \in 1..Len(made) :
            /\ made[i].op = "next" =>
                    made[i].token = FeedItem(NextsBefore(i) + 1)
            /\ made[i].op = "peek" =>
                    /\ made[i].token = FeedItem(NextsBefore(i) + made[i].pos)
                    /\ (/\ i > 1
                        /\ made[i - 1].op = "peek"
                        /\ made[i - 1].pos = made[i].pos)
                            => /\ made[i].token = made[i - 1].token
                               /\ made[i].pulled = 0

\* C16: when next() returned a and then b, a backup() called at once returns
\* a and makes it the current token, and a next() called right after it
\* returns b again and takes no token from the lexer.
C16_BackupUndoesNext ==
    \A i \in 1..(Len(made) - 2) :
        (/\ made[i].op = "next"
         /\ made[i + 1].op = "next"
         /\ made[i + 2].op = "backup")
            => /\ made[i + 2].token = made[i].token
               /\ Len(made) = i + 2 =>
                     Tree_token(tr, tokenZero) = made[i].token
               /\ (Len(made) > i + 2 /\ made[i + 3].op = "next") =>
                     /\ made[i + 3].token = made[i + 1].token
                     /\ made[i + 3].pulled = 0

\* next() has just returned a token to the loop of Tree.parse: the body of
\* the loop has run and the loop is back at its head, or has ended in a panic
NextReturned == ppc \in {"peek", "panic"} /\ made.token # NilItem

\* C17: in the loop of Tree.parse, when next() has returned the k-th token
\* the lexer sent, peekBack(1) is the (k-1)-th and peekBack(2) the (k-2)-th
\* token sent, each nil exactly when there is no such token.
C17_PeekBackIsEarlierToken ==
    NextReturned =>
        /\ made.token = emitted[Len(emitted)]
        /\ Tree_token(tr, tokenZero) = emitted[Len(emitted)]
        /\ Tree_peekBack(tr, 1) =
                IF Len(emitted) > 1 THEN emitted[Len(emitted) - 1] ELSE NilItem
        /\ Tree_peekBack(tr, 2) =
                IF Len(emitted) > 2 THEN emitted[Len(emitted) - 2] ELSE NilItem

\* C17's case: next() has returned the fourth token or a later one, and the
\* two tokens in front of it differ
C17_Witness ==
    /\ NextReturned
    /\ Len(emitted) >= 4
    /\ Tree_peekBack(tr, 1) # Tree_peekBack(tr, 2)
    /\ Tree_peekBack(tr, 2) # NilItem

\* every rune of the text is of the class
AllRunes(text, Class(_)) == \A i \in 1..Len(text) : Class(text[i])

\* C18: a BlankLine token is sent for a bare newline only: its value
\* consists of end-of-line runes and of nothing else.
C18_BlankLineIsBareNewline ==
    \A k \in 1..Len(emitted) :
        emitted[k].Type = itemBlankLine => AllRunes(emitted[k].Text, isEndOfLine)

\* the Go offset behind the k-th token sent
EndOfItem(k) == emitted[k].Position - 1 + emitted[k].Length

\* C19: the value of every Space token sent is a run of white space runes
\* with no other rune in it, the run is maximal (the rune behind it, if any,
\* is not white space), and the lexer that has sent it goes on in lexStart.
C19_SpaceIsMaximalWhiteSpace ==
    /\ \A k \in 1..Len(emitted) :
          emitted[k].Type = itemSpace =>
              /\ emitted[k].Length > 0
              /\ AllRunes(emitted[k].Text, isSpace)
              /\ EndOfItem(k) < Len(input) => ~isSpace(input[EndOfItem(k) + 1])
    /\ lx.pc = "lexSpace_326" => lexer_resume(lx).pc = "lexStart"

\* the Section k of the heap has the title text and the underline rune of a
\* Section built before it
PairUsedBefore(k) ==
    \E j \in NodesOfType(NodeSection) :
        /\ j < k
        /\ nodes[j].Text = nodes[k].Text
        /\ nodes[j].UnderLine.Rune = nodes[k].UnderLine.Rune

\* the entries of the error list that report a section parsed before
DuplicateErrors ==
    {e \in 1..Len(tr.Errors) : tr.Errors[e].what = "previouslyParsed"}

\* C20: a duplicate-section error is in the error list for every Section
\* whose title text and underline rune are those of a Section built earlier
\* in the parse, and for no other; the Section that repeats the pair is
\* returned by section() all the same.
C20_DuplicateSectionReported ==
    /\ Cardinality(DuplicateErrors)
          = Cardinality({k \in NodesOfType(NodeSection) : PairUsedBefore(k)})
    /\ \A k \in NodesOfType(NodeSection) :
          (PairUsedBefore(k) /\ ppc # "panic") => InTree(k)

\* the number of entries of an error list that report a fault of an overline
OverlineErrors(errors) ==
    Cardinality({e \in 1..Len(errors) :
                    errors[e].what \in {"overLineLength", "overLineMismatch"}})

\* the step is a run of the loop body of Tree.parse that hands section() an
\* underline whose predecessor is a Title with a SectionAdornment in front
\* of it, and section() returns
SectionWithOverline ==
    /\ ppc = "next"
    /\ ppc' \in {"peek", "done"}
    /\ made'.token.Type = itemSectionAdornment
    /\ Tree_peekBack(tr', 1).Type = itemTitle
    /\ Tree_peekBack(tr', 2).Type = itemSectionAdornment

\* C21: for a Title with a SectionAdornment in front of it, the overline that
\* section() remembers is that SectionAdornment; one structural error is
\* appended if its length differs from the title's or its text from the
\* underline's, none if it agrees with both, and a Section is built and
\* returned either way.
C21_OverlineIsTheAdornment ==
    [][SectionWithOverline =>
        /\ made'.n # 0
        /\ nodes'[made'.n].Type = NodeSection
        /\ nodes'[made'.n].OverLine = newAdornment(Tree_peekBack(tr', 2))
        /\ OverlineErrors(tr'.Errors) - OverlineErrors(tr.Errors) =
              IF \/ Tree_peekBack(tr', 2).Length # Tree_peekBack(tr', 1).Length
                 \/ Tree_peekBack(tr', 2).Text # made'.token.Text
              THEN 1 ELSE 0]_vars

\* the first Section of the heap with the underline rune of the Section k
FirstOfRune(k) ==
    CHOOSE j \in NodesOfType(NodeSection) :
        /\ nodes[j].UnderLine.Rune = nodes[k].UnderLine.Rune
        /\ \A i \in NodesOfType(NodeSection) :
              nodes[i].UnderLine.Rune = nodes[k].UnderLine.Rune => j <= i

\* the nodes j and k are elements of one node list
SameList(j, k) ==
    \/ /\ \E a \in 1..Len(tr.Nodes) : tr.Nodes[a] = j
       /\ \E b \in 1..Len(tr.Nodes) : tr.Nodes[b] = k
    \/ \E m \in 1..Len(nodes) :
          /\ \E a \in 1..Len(nodes[m].NodeList) : nodes[m].NodeList[a] = j
          /\ \E b \in 1..Len(nodes[m].NodeList) : nodes[m].NodeList[b] = k

\* the Section k was built for a rune that an earlier Section of another
\* title holds
ReusesRune(k) ==
    /\ FirstOfRune(k) < k
    /\ nodes[FirstOfRune(k)].Text # nodes[k].Text

\* C22: a Section built for an underline rune seen before with a different
\* title has that rune's level and is an element of the node list that holds
\* the earlier section of that level (the root list for level 1), and once
\* section() has returned it the nodes that follow go to its child list.
C22_SiblingOfEarlierSection ==
    \A k \in NodesOfType(NodeSection) :
        ReusesRune(k) =>
            /\ nodes[k].Level = nodes[FirstOfRune(k)].Level
            /\ SameList(FirstOfRune(k), k)
            /\ made.n = k => tr.nodeTarget = k

\* the step is a run of the loop body of Tree.parse for a Space token
SpaceStep ==
    /\ ppc = "next"
    /\ ppc' # "next"
    /\ made'.token.Type = itemSpace

\* the token in front of the Space token is a BlankLine and the level of the
\* Space token is not the tracked indent level
OpensBlockQuote ==
    /\ Tree_peekBack(tr', 1).Type = itemBlankLine
    /\ made'.token.Length \div tr.indentWidth # tr.indentLevel

\* C23: for a Space token a BlockQuote is made exactly when the token before
\* it is a BlankLine and level = length / indent width differs from the
\* tracked indent level; the node has that level, which becomes the tracked
\* level.  Otherwise no node is made, and the tracked level, the insertion
\* target, the node lists and the error list stay as they were.
C23_IndentOpensBlockQuote ==
    [][SpaceStep =>
        IF OpensBlockQuote
        THEN /\ Len(nodes') = Len(nodes) + 1
             /\ made'.n = Len(nodes')
             /\ nodes'[made'.n].Type = NodeBlockQuote
             /\ nodes'[made'.n].Level = made'.token.Length \div tr.indentWidth
             /\ tr'.indentLevel = made'.token.Length \div tr.indentWidth
        ELSE /\ made'.n = 0
             /\ nodes' = nodes
             /\ tr'.indentLevel = tr.indentLevel
             /\ tr'.nodeTarget = tr.nodeTarget
             /\ tr'.Nodes = tr.Nodes
             /\ tr'.Errors = tr.Errors]_vars

\* C23's case: indent() has opened a BlockQuote of level 1
C23_Witness ==
    /\ made.token.Type = itemSpace
    /\ made.n # 0
    /\ nodes[made.n].Type = NodeBlockQuote
    /\ nodes[made.n].Level = 1
    /\ tr.indentLevel = 1

\* C23's other case: a Space token behind a BlankLine at the tracked level 1
C23_Continuation ==
    /\ made.token.Type = itemSpace
    /\ made.n = 0
    /\ ppc = "peek"
    /\ Tree_peekBack(tr, 1).Type = itemBlankLine
    /\ tr.indentLevel = 1
    /\ made.token.Length \div tr.indentWidth = 1

\* the parser has taken the EOF item from the channel
EOFReceived == \E k \in 1..Len(emitted) : emitted[k].Type = itemEOF

\* the parser is at or in t.peek(1), the one place of Tree.parse that
\* receives
Requesting == ppc \in {"peek", "nextItem"}

\* the lexer goroutine is behind its last send: it has ended or is in the
\* last statements of emit and lexStart, which end it
LexerEnding ==
    \/ lx.pc = "halted"
    \/ lx.pc = "lexStart_315" /\ lexer_run(lx).pc = "halted"

\* C24: the parser never asks the channel for a token once it has received
\* EOF, and never waits on a lexer that has ended; when parse has returned
\* the lexer has sent EOF as its last item and has ended, it is not left
\* waiting at a send.
C24_HandoffEnds ==
    /\ Requesting => ~EOFReceived /\ lx.pc # "halted"
    /\ EOFReceived => emitted[Len(emitted)].Type = itemEOF /\ Returned
    /\ Returned => EOFReceived /\ LexerEnding /\ lx.pc # "send"

\* C24's case: parse has returned behind several tokens and the lexer
\* goroutine has ended
C24_Witness ==
    /\ Returned
    /\ Len(emitted) > 2
    /\ lx.pc = "halted"

\* the error list the parser leaves if it runs the loop body of Tree.parse
\* now and its reads of l.pos find the values reads
ErrorsIfDispatched(reads) ==
    Tree_parse_body([t |-> Tree_next(tr, <<>>).t, reads |-> reads,
                     nodes |-> nodes, n |-> 0, panic |-> FALSE],
                    Tree_next(tr, <<>>).nItem).t.Errors

\* the parser is about to process a token
AboutToDispatch ==
    /\ ppc = "next"
    /\ ~Crashed

\* C25: the parser does not read the cursor of a lexer that may be running
\* ahead: the entries errorf puts into the error list for the token being
\* processed, line number included, are the same wherever the lexer is
\* between the handoff of the token and its next send.
C25_ErrorLineIgnoresLexer ==
    AboutToDispatch =>
        \A reads \in ReadPairs(lexer_positions(lx)) :
            ErrorsIfDispatched(reads) = ErrorsIfDispatched(<<lx.pos, lx.pos>>)

=============================================================================
